---- MODULE Spec2Model ----
(***************************************************************************)
(* The responsive, collapsible sidebar layout of                           *)
(* content/post/Responsive-animated-sidebar-layout-react-tailwind.md:      *)
(* the components NavItem, NavHeader, NavBar, Header and Layout in their   *)
(* final versions, the React state isMinimized that NavBar owns, and the   *)
(* Tailwind classes through which the rendered tree is turned into what a  *)
(* narrow or a wide (lg:) viewport shows.                                  *)
(***************************************************************************)
EXTENDS Integers, Sequences, FiniteSets, TLC

\* routes         the route list NavBar maps over (fixed for a run)
\* isMinimized    the state NavBar holds through useState
\* tree           the tree of the last committed render
\* viewport       which side of the lg: breakpoint the window is on
\* navScroll      scroll offset of the navigation region
\* contentScroll  scroll offset of the content region
\* toggles        toggles since the last mount, saturating at MaxToggles
\* lastAction     the step taken last
\* hist           the state and tree before each of the last toggles
\* unmounted      the state the component held when it was last unmounted
\* pending        the updates queued on the state hook and not yet applied
\* flushed        how many queued updates the last render applied
VARIABLES routes, isMinimized, tree, viewport, navScroll, contentScroll,
          toggles, lastAction, hist, unmounted, pending, flushed

vars == <<routes, isMinimized, tree, viewport, navScroll, contentScroll,
          toggles, lastAction, hist, unmounted, pending, flushed>>

(* ----------------------------- bounds --------------------------------- *)

\* longest route list supplied to NavBar
MaxRoutes == 2
\* the toggle counter saturates here
MaxToggles == 3
\* largest scroll offset of a region
MaxScroll == 1
\* most updates queued before a render applies them
MaxPending == 2

(* ------------------------- route configuration ------------------------ *)

\* a property the route object does not carry (JavaScript undefined)
Undefined == "undefined"

RouteTexts == {"Inbox", "Projects", Undefined}
RouteIcons == {"HiInbox", Undefined}
Route == [text : RouteTexts, icon : RouteIcons]

RouteSeqs == UNION {[1..n -> Route] : n \in 0..MaxRoutes}

(* ------------------------- Tailwind semantics ------------------------- *)

Viewports == {"narrow", "wide"}

\* `${cond && "cls"}` inside a template literal: the class, or the text
\* "false" when the condition is false
TemplateAnd(cond, cls) == IF cond THEN cls ELSE "false"

\* the width utilities the components use, as CSS values (lengths in
\* tenths of a rem)
WidthOf(cls) ==
  CASE cls = "w-full"         -> [kind |-> "percentage", value |-> 100]
    [] cls = "lg:w-[18rem]"   -> [kind |-> "length", value |-> 180]
    [] cls = "lg:w-[5.5rem]"  -> [kind |-> "length", value |-> 55]
    [] cls = "lg:w-auto"      -> [kind |-> "auto", value |-> 0]
    [] OTHER                  -> [kind |-> "auto", value |-> 0]

LgWidthClasses == {"lg:w-[18rem]", "lg:w-[5.5rem]", "lg:w-auto"}

\* computed width of an element: an lg: utility wins on the wide viewport,
\* otherwise the unprefixed one, otherwise the initial value auto
Width(classes, vp) ==
  IF vp = "wide" /\ classes \cap LgWidthClasses # {}
  THEN WidthOf(CHOOSE c \in classes \cap LgWidthClasses : TRUE)
  ELSE IF "w-full" \in classes THEN WidthOf("w-full")
  ELSE WidthOf("")

\* computed display of an element
Display(classes, vp) ==
  IF vp = "wide" /\ "lg:hidden" \in classes THEN "none"
  ELSE IF vp = "wide" /\ "lg:flex" \in classes THEN "flex"
  ELSE IF "hidden" \in classes THEN "none"
  ELSE IF "flex" \in classes THEN "flex"
  ELSE "block"

\* computed flex-direction of a flex container
FlexDirection(classes, vp) ==
  IF vp = "wide" /\ "lg:flex-row" \in classes THEN "row"
  ELSE IF vp = "wide" /\ "lg:flex-col" \in classes THEN "column"
  ELSE IF "flex-col-reverse" \in classes THEN "column-reverse"
  ELSE IF "flex-col" \in classes THEN "column"
  ELSE "row"

\* computed height of a flex row, in tenths of a rem: lg:h-20 fixes it at 5rem
\* on the wide viewport; otherwise it is automatic, the padding p-4 above
\* and below around the tallest child
Height(classes, childHeights, vp) ==
  IF vp = "wide" /\ "lg:h-20" \in classes
  THEN [kind |-> "length", value |-> 50]
  ELSE [kind |-> "auto",
        value |-> (IF "p-4" \in classes THEN 20 ELSE 0)
                  + (IF childHeights = {} THEN 0
                     ELSE CHOOSE h \in childHeights : \A g \in childHeights : g <= h)]

\* whether an element is a vertical scroll container
ScrollsY(classes, vp) ==
  \/ "overflow-y-auto" \in classes
  \/ vp = "wide" /\ "lg:overflow-y-auto" \in classes

Reverse(s) == [i \in 1..Len(s) |-> s[Len(s) + 1 - i]]

(* ------------------------------ NavItem ------------------------------- *)

\* a default parameter value applies exactly when the argument is undefined
DefaultTo(arg, dflt) == IF arg = Undefined THEN dflt ELSE arg

\* NavItem that hides its text by state on every viewport
NavItemHiddenEverywhere(text, icon, minimized) ==
  [classes |-> {"group", "flex-grow", "lg:flex-grow-0", "flex", "flex-col",
                "lg:flex-row", "items-center", "p-4", "cursor-pointer",
                "rounded-lg", "hover:bg-gray-600"},
   children |-> <<"icon", "text">>,
   icon |-> DefaultTo(icon, ""),
   text |-> DefaultTo(text, "Default"),
   textClasses |-> {"text-sm", "lg:text-lg", "lg:ml-4", "text-gray-200",
                    TemplateAnd(minimized, "hidden")}]

\* NavItem without default parameter values
NavItemNoDefaults(text, icon, minimized) ==
  [classes |-> {"group", "flex-grow", "lg:flex-grow-0", "flex", "flex-col",
                "lg:flex-row", "items-center", "p-4", "cursor-pointer",
                "rounded-lg", "hover:bg-gray-600"},
   children |-> <<"icon", "text">>,
   icon |-> icon,
   text |-> text,
   textClasses |-> {"text-sm", "lg:text-lg", "lg:ml-4", "text-gray-200",
                    TemplateAnd(minimized, "lg:hidden")}]

\* NavItem that leaves the text out of the markup when minimized
NavItemUnmountsText(text, icon, minimized) ==
  [classes |-> {"group", "flex-grow", "lg:flex-grow-0", "flex", "flex-col",
                "lg:flex-row", "items-center", "p-4", "cursor-pointer",
                "rounded-lg", "hover:bg-gray-600"},
   children |-> IF minimized THEN <<"icon">> ELSE <<"icon", "text">>,
   icon |-> DefaultTo(icon, ""),
   text |-> DefaultTo(text, "Default"),
   textClasses |-> {"text-sm", "lg:text-lg", "lg:ml-4", "text-gray-200"}]

\* NavItem = ({ text = "Default", icon = "", isMinimized }) => ...
\* the icon <div> and the text <p> are both always in the markup
NavItem(text, icon, minimized) ==
  [classes |-> {"group", "flex-grow", "lg:flex-grow-0", "flex", "flex-col",
                "lg:flex-row", "items-center", "p-4", "cursor-pointer",
                "rounded-lg", "hover:bg-gray-600"},
   children |-> <<"icon", "text">>,
   icon |-> DefaultTo(icon, ""),
   text |-> DefaultTo(text, "Default"),
   textClasses |-> {"text-sm", "lg:text-lg", "lg:ml-4", "text-gray-200",
                    TemplateAnd(minimized, "lg:hidden")}]

(* ------------------------------ NavHeader ----------------------------- *)

\* the conditionally rendered logo and title block
Branding ==
  [kind |-> "branding",
   classes |-> {"flex-shrink-0", "flex", "items-center", "mr-12"}]

\* the <div onClick={() => onToggle()}> around the chevron icon
Control(minimized) ==
  [kind |-> "control",
   classes |-> {"text-gray-400", "text-3xl", "cursor-pointer",
                "hover:text-gray-300", "transition", "duration-200",
                TemplateAnd(minimized, "rotate-180")}]

\* the control rendered inside the conditional block
HeaderChildrenControlInside(minimized) ==
  IF ~minimized THEN <<Branding, Control(minimized)>> ELSE <<>>

\* {!isMinimized && (...)}: the block is a child only when not minimized
HeaderChildren(minimized) ==
  (IF ~minimized THEN <<Branding>> ELSE <<>>) \o <<Control(minimized)>>

\* NavHeader without the fixed height
NavHeaderAutoHeight(minimized) ==
  [classes |-> {"hidden", "lg:flex", "items-center", "justify-between", "p-4"},
   children |-> HeaderChildren(minimized)]

\* NavHeader that is not hidden on small screens
NavHeaderShownEverywhere(minimized) ==
  [classes |-> {"flex", "items-center", "justify-between", "p-4", "lg:h-20"},
   children |-> HeaderChildren(minimized)]

NavHeader(minimized) ==
  [classes |-> {"hidden", "lg:flex", "items-center", "justify-between", "p-4",
                "lg:h-20"},
   children |-> HeaderChildren(minimized)]

(* ------------------------------- NavBar ------------------------------- *)

\* className of <nav>, but for the width utility that depends on the state
NavBaseClasses ==
  {"bg-gray-900", "text-gray-100", "lg:flex-shrink-0", "flex", "flex-row",
   "justify-around", "lg:flex-col", "lg:justify-start", "w-full", "lg:p-2",
   "lg:overflow-y-auto", "lg:transition-[width]", "lg:duration-200"}

\* routes.map((route, index) => <NavItem key={`navitem-${index}`} .../>)
NavItems(rts, minimized) ==
  [i \in 1..Len(rts) |->
     [key |-> i - 1, el |-> NavItem(rts[i].text, rts[i].icon, minimized)]]

\* NavBar whose minimized width is automatic
NavBarAutoWidth(rts, minimized) ==
  [classes |-> NavBaseClasses \cup
                 {IF minimized THEN "lg:w-auto" ELSE "lg:w-[18rem]"},
   header |-> NavHeader(minimized),
   items |-> NavItems(rts, minimized)]

\* NavBar whose loop starts one route too late
NavBarSkipsFirst(rts, minimized) ==
  [classes |-> NavBaseClasses \cup
                 {IF minimized THEN "lg:w-[5.5rem]" ELSE "lg:w-[18rem]"},
   header |-> NavHeader(minimized),
   items |-> NavItems(IF rts = <<>> THEN rts ELSE Tail(rts), minimized)]

\* NavBar that does not hand isMinimized down to its items
NavBarItemsUnaware(rts, minimized) ==
  [classes |-> NavBaseClasses \cup
                 {IF minimized THEN "lg:w-[5.5rem]" ELSE "lg:w-[18rem]"},
   header |-> NavHeader(minimized),
   items |-> NavItems(rts, FALSE)]

\* what NavBar returns for a value of its isMinimized state
NavBar(rts, minimized) ==
  [classes |-> NavBaseClasses \cup
                 {IF minimized THEN "lg:w-[5.5rem]" ELSE "lg:w-[18rem]"},
   header |-> NavHeader(minimized),
   items |-> NavItems(rts, minimized)]

(* ---------------------------- Header, Layout -------------------------- *)

\* the static page header
Header == [kind |-> "Header", classes |-> {"w-full", "p-4"}]

\* the page content handed to Layout as {children}
Children == [kind |-> "children", classes |-> {"flex", "flex-col", "p-4", "content"}]

\* the <div> holding <Header /> and {children}
ContentRegion ==
  [kind |-> "content",
   classes |-> {"flex", "flex-col", "overflow-y-auto"},
   children |-> <<Header, Children>>]

\* Layout that stacks in document order on small screens
LayoutNotReversed(nav) ==
  [classes |-> {"h-screen", "w-screen", "overflow-hidden", "flex",
                "flex-col", "lg:flex-row", "lg:overflow-y-auto",
                "lg:overflow-x-hidden"},
   order |-> <<"nav", "content">>,
   nav |-> nav,
   content |-> ContentRegion]

\* Layout: <NavBar /> first, the content <div> second, in document order
Layout(nav) ==
  [classes |-> {"h-screen", "w-screen", "overflow-hidden", "flex",
                "flex-col-reverse", "lg:flex-row", "lg:overflow-y-auto",
                "lg:overflow-x-hidden"},
   order |-> <<"nav", "content">>,
   nav |-> nav,
   content |-> ContentRegion]

\* the tree React commits for a route list and a value of the state
Render(rts, minimized) == Layout(NavBar(rts, minimized))

(* ----------------------- what a viewport shows ------------------------ *)

\* the regions of the layout in the order they are laid out
VisualOrder(t, vp) ==
  IF FlexDirection(t.classes, vp) = "column-reverse"
  THEN Reverse(t.order) ELSE t.order

\* the children of the content region in the order they are laid out
ContentOrder(t, vp) ==
  LET kinds == [i \in 1..Len(t.content.children) |-> t.content.children[i].kind]
  IN IF FlexDirection(t.content.classes, vp) = "column-reverse"
     THEN Reverse(kinds) ELSE kinds

NavWidth(t, vp) == Width(t.nav.classes, vp)

HeaderShown(t, vp) == Display(t.nav.header.classes, vp) # "none"

BrandingPresent(t) ==
  \E i \in 1..Len(t.nav.header.children) : t.nav.header.children[i].kind = "branding"

ControlPresent(t) ==
  \E i \in 1..Len(t.nav.header.children) : t.nav.header.children[i].kind = "control"

ControlRotated(t) ==
  \E i \in 1..Len(t.nav.header.children) :
     /\ t.nav.header.children[i].kind = "control"
     /\ "rotate-180" \in t.nav.header.children[i].classes

\* the height a child of the header takes by itself, in tenths of a rem:
\* the h-12 logo (3rem) makes the branding block, the text-3xl icon
\* (1.875rem, rounded) the control
IntrinsicHeight(child) == IF child.kind = "branding" THEN 30 ELSE 19

\* the block height of the header
HeaderHeight(t, vp) ==
  Height(t.nav.header.classes,
         {IntrinsicHeight(t.nav.header.children[i]) :
            i \in 1..Len(t.nav.header.children)},
         vp)

\* distance of the control's centre from the top of the header: items-center
\* puts it at half the header's height
ControlBlockOffset(t, vp) == HeaderHeight(t, vp).value \div 2

\* the control can be activated where the header it sits in is displayed
ControlShown(t, vp) == ControlPresent(t) /\ HeaderShown(t, vp)

\* whether the icon <div>, the text <p> is an element of the item's markup
IconPresent(item) == \E i \in 1..Len(item.el.children) : item.el.children[i] = "icon"
TextPresent(item) == \E i \in 1..Len(item.el.children) : item.el.children[i] = "text"

LabelShown(item, vp) == Display(item.el.textClasses, vp) # "none"

\* what one item shows on a viewport
ItemView(item, vp) ==
  [icon |-> item.el.icon, text |-> item.el.text, textShown |-> LabelShown(item, vp)]

\* everything a viewport shows of the tree
View(t, vp) ==
  [order |-> VisualOrder(t, vp),
   direction |-> FlexDirection(t.classes, vp),
   content |-> ContentOrder(t, vp),
   navWidth |-> NavWidth(t, vp),
   headerShown |-> HeaderShown(t, vp),
   brandingShown |-> HeaderShown(t, vp) /\ BrandingPresent(t),
   controlRotated |-> HeaderShown(t, vp) /\ ControlRotated(t),
   items |-> [i \in 1..Len(t.nav.items) |-> ItemView(t.nav.items[i], vp)]]

(* ------------------------------ the state ----------------------------- *)

\* useState(true): a sidebar that starts minimized
UseStateInitialMinimized == TRUE

\* const [isMinimized, setIsMinimized] = useState(false)
UseStateInitial == FALSE

\* an updater that returns the state it was given
UpdaterKeeps(current) == current

\* an updater that minimizes whatever the state was
UpdaterMinimizes(current) == TRUE

\* the updater onToggle hands to setIsMinimized: (current) => !current
ToggleUpdater(current) == ~current

Min(a, b) == IF a < b THEN a ELSE b

\* the state and tree before a toggle, kept for the last two toggles while
\* nothing else happens between them
Snapshot == [state |-> isMinimized, tree |-> tree]

Actions == {"mount", "toggle", "resize", "scrollNav", "scrollContent",
            "rerender", "navItem", "click", "flush"}

\* an update queued by setIsMinimized: an updater function, or a plain value
Updates == [kind : {"updater", "value"}, value : BOOLEAN]

TypeOK ==
  /\ routes \in RouteSeqs
  /\ isMinimized \in BOOLEAN
  /\ viewport \in Viewports
  /\ navScroll \in 0..MaxScroll
  /\ contentScroll \in 0..MaxScroll
  /\ toggles \in 0..MaxToggles
  /\ lastAction \in Actions
  /\ Len(hist) \in 0..2
  /\ unmounted \in {"never", "EXPANDED", "MINIMIZED"}
  /\ pending \in Seq(Updates) /\ Len(pending) <= MaxPending
  /\ flushed \in 0..MaxPending

\* a fresh mount of the page: the state hook starts from its initial value
Mounted(rts, vp) ==
  /\ routes = rts
  /\ isMinimized = UseStateInitial
  /\ tree = Render(rts, UseStateInitial)
  /\ viewport = vp
  /\ navScroll = 0
  /\ contentScroll = 0
  /\ toggles = 0
  /\ lastAction = "mount"
  /\ hist = <<>>
  /\ unmounted = "never"
  /\ pending = <<>>
  /\ flushed = 0

Init == \E rts \in RouteSeqs, vp \in Viewports : Mounted(rts, vp)

(* ------------------------------ the steps ----------------------------- *)

\* a control that only minimizes: once minimized, clicks do nothing
ToggleOnlyMinimizes ==
  /\ ControlShown(tree, viewport)
  /\ ~isMinimized
  /\ isMinimized' = TRUE
  /\ tree' = Render(routes, isMinimized')
  /\ toggles' = Min(toggles + 1, MaxToggles)
  /\ hist' = IF Len(hist) = 2 THEN <<hist[2], Snapshot>> ELSE Append(hist, Snapshot)
  /\ lastAction' = "toggle"
  /\ UNCHANGED <<unmounted, pending, flushed>>
  /\ UNCHANGED <<routes, viewport, navScroll, contentScroll>>

\* a click on the control: onClick calls onToggle, which queues the updater;
\* React applies it and commits the re-rendered tree before the next event
Toggle ==
  /\ ControlShown(tree, viewport)
  /\ isMinimized' = ToggleUpdater(isMinimized)
  /\ tree' = Render(routes, isMinimized')
  /\ toggles' = Min(toggles + 1, MaxToggles)
  /\ hist' = IF Len(hist) = 2 THEN <<hist[2], Snapshot>> ELSE Append(hist, Snapshot)
  /\ lastAction' = "toggle"
  /\ UNCHANGED <<unmounted, pending, flushed>>
  /\ UNCHANGED <<routes, viewport, navScroll, contentScroll>>

\* a resize that also resets the sidebar
ResizeResetsState ==
  \E vp \in Viewports \ {viewport} :
    /\ viewport' = vp
    /\ isMinimized' = UseStateInitial
    /\ tree' = Render(routes, isMinimized')
    /\ navScroll' = IF ScrollsY(tree.nav.classes, vp) THEN navScroll ELSE 0
    /\ lastAction' = "resize"
    /\ UNCHANGED <<unmounted, pending, flushed>>
    /\ hist' = <<>>
    /\ UNCHANGED <<routes, contentScroll, toggles>>

\* the window crosses the lg: breakpoint: only the media queries change what
\* applies; a region that stops being a scroll container loses its offset
Resize ==
  \E vp \in Viewports \ {viewport} :
    /\ viewport' = vp
    /\ navScroll' = IF ScrollsY(tree.nav.classes, vp) THEN navScroll ELSE 0
    /\ lastAction' = "resize"
    /\ UNCHANGED <<unmounted, pending, flushed>>
    /\ hist' = <<>>
    /\ UNCHANGED <<routes, isMinimized, tree, contentScroll, toggles>>

\* a navigation region that is no scroll container of its own: scrolling it
\* scrolls the page, and the content with it
ScrollNavMovesContent ==
  /\ ScrollsY(tree.nav.classes, viewport)
  /\ \E y \in (0..MaxScroll) \ {navScroll} : navScroll' = y /\ contentScroll' = y
  /\ lastAction' = "scrollNav"
  /\ UNCHANGED <<unmounted, pending, flushed>>
  /\ hist' = <<>>
  /\ UNCHANGED <<routes, isMinimized, tree, viewport, toggles>>

\* the navigation region is scrolled (it is a scroll container on lg: only)
ScrollNav ==
  /\ ScrollsY(tree.nav.classes, viewport)
  /\ \E y \in (0..MaxScroll) \ {navScroll} : navScroll' = y
  /\ lastAction' = "scrollNav"
  /\ UNCHANGED <<unmounted, pending, flushed>>
  /\ hist' = <<>>
  /\ UNCHANGED <<routes, isMinimized, tree, viewport, contentScroll, toggles>>

\* the content region is scrolled
ScrollContent ==
  /\ ScrollsY(tree.content.classes, viewport)
  /\ \E y \in (0..MaxScroll) \ {contentScroll} : contentScroll' = y
  /\ lastAction' = "scrollContent"
  /\ UNCHANGED <<unmounted, pending, flushed>>
  /\ hist' = <<>>
  /\ UNCHANGED <<routes, isMinimized, tree, viewport, navScroll, toggles>>

\* the components render again with the state as it is
Rerender ==
  /\ tree' = Render(routes, isMinimized)
  /\ lastAction' = "rerender"
  /\ UNCHANGED <<unmounted, pending, flushed>>
  /\ hist' = <<>>
  /\ UNCHANGED <<routes, isMinimized, viewport, navScroll, contentScroll, toggles>>

\* a click on a NavItem: no element of it carries a handler
ClickNavItem ==
  /\ \E i \in 1..Len(tree.nav.items) : TRUE
  /\ lastAction' = "navItem"
  /\ UNCHANGED <<unmounted, pending, flushed>>
  /\ hist' = <<>>
  /\ UNCHANGED <<routes, isMinimized, tree, viewport, navScroll, contentScroll,
                 toggles>>

\* a mount that restores the state the component held before
MountRestoresState ==
  /\ lastAction # "mount"
  /\ isMinimized' = isMinimized
  /\ tree' = Render(routes, isMinimized')
  /\ navScroll' = 0
  /\ contentScroll' = 0
  /\ toggles' = 0
  /\ lastAction' = "mount"
  /\ hist' = <<>>
  /\ unmounted' = (IF isMinimized THEN "MINIMIZED" ELSE "EXPANDED")
  /\ pending' = <<>>
  /\ flushed' = 0
  /\ UNCHANGED <<routes, viewport>>

\* the page is loaded again: every component mounts afresh
Mount ==
  /\ lastAction # "mount"
  /\ isMinimized' = UseStateInitial
  /\ tree' = Render(routes, isMinimized')
  /\ navScroll' = 0
  /\ contentScroll' = 0
  /\ toggles' = 0
  /\ lastAction' = "mount"
  /\ hist' = <<>>
  /\ unmounted' = (IF isMinimized THEN "MINIMIZED" ELSE "EXPANDED")
  /\ pending' = <<>>
  /\ flushed' = 0
  /\ UNCHANGED <<routes, viewport>>

Next ==
  \/ Toggle
  \/ Resize
  \/ ScrollNav
  \/ ScrollContent
  \/ Rerender
  \/ ClickNavItem
  \/ Mount

Spec == Init /\ [][Next]_vars

(* ------------- clicks and renders as separate steps ------------------- *)

\* onToggle written as setIsMinimized(!isMinimized): the value is computed
\* from the state the handler's render saw
OnToggleStale(rendered) == [kind |-> "value", value |-> ~rendered]

\* onToggle={() => setIsMinimized((current) => !current)}: what the handler
\* created by a render queues; it does not read the state that render saw
OnToggle(rendered) == [kind |-> "updater", value |-> FALSE]

\* React applies a queued update to the state it has reached so far: an
\* updater is called with it, a plain value replaces it
ApplyUpdate(u, current) ==
  IF u.kind = "updater" THEN ToggleUpdater(current) ELSE u.value

RECURSIVE ApplyAll(_, _)
\* the queue is applied in the order the updates were queued
ApplyAll(queue, current) ==
  IF queue = <<>> THEN current
  ELSE ApplyAll(Tail(queue), ApplyUpdate(Head(queue), current))

\* a click on the control runs the handler of the committed render, which
\* queues its update; the state and the tree stay as rendered until React
\* renders again
Click ==
  /\ ControlShown(tree, viewport)
  /\ Len(pending) < MaxPending
  /\ pending' = Append(pending, OnToggle(isMinimized))
  /\ toggles' = Min(toggles + 1, MaxToggles)
  /\ lastAction' = "click"
  /\ hist' = <<>>
  /\ UNCHANGED <<routes, isMinimized, tree, viewport, navScroll, contentScroll,
                 unmounted, flushed>>

\* React renders NavBar again: the queued updates are applied in order, and
\* the tree is rendered from the state they give
Flush ==
  /\ pending # <<>>
  /\ isMinimized' = ApplyAll(pending, isMinimized)
  /\ tree' = Render(routes, isMinimized')
  /\ flushed' = Len(pending)
  /\ pending' = <<>>
  /\ lastAction' = "flush"
  /\ hist' = <<>>
  /\ UNCHANGED <<routes, viewport, navScroll, contentScroll, toggles, unmounted>>

NextBatched ==
  \/ Click
  \/ Flush
  \/ Resize
  \/ ScrollNav
  \/ ScrollContent
  \/ ClickNavItem
  \/ Mount

SpecBatched == Init /\ [][NextBatched]_vars

(* ------------------------------ the claims ---------------------------- *)

\* the two widths the sidebar is given on the wide viewport, in tenths of a rem
WideLiteral == [kind |-> "length", value |-> 180]
NarrowLiteral == [kind |-> "length", value |-> 55]

\* C1: on a fresh mount, before any toggle, the sidebar is expanded
\* (isMinimized = false), the branding block is in the rendered tree, the
\* control carries no 180-degree rotation and the wide-viewport width of the
\* navigation is the wide literal, 18rem.
C1_InitialRender ==
  toggles = 0 =>
    /\ isMinimized = FALSE
    /\ BrandingPresent(tree)
    /\ ControlPresent(tree) /\ ~ControlRotated(tree)
    /\ NavWidth(tree, "wide") = WideLiteral

C1_Witness ==
  toggles = 0 /\ lastAction = "mount" /\ viewport = "wide" /\ Len(routes) > 0

\* C2: after exactly one toggle since the mount the sidebar is minimized, the
\* branding block is absent from the tree, the control is rotated by 180
\* degrees and the wide-viewport width of the navigation is the narrow
\* literal, 5.5rem.
C2_AfterOneToggle ==
  toggles = 1 =>
    /\ isMinimized = TRUE
    /\ ~BrandingPresent(tree)
    /\ ControlPresent(tree) /\ ControlRotated(tree)
    /\ NavWidth(tree, "wide") = NarrowLiteral

C2_Witness == toggles = 1 /\ lastAction = "toggle"

\* C3: two consecutive toggles bring the state, the rendered tree and every
\* attribute derived from it (branding, rotation, width, label visibility,
\* on either viewport) back to what they were before the two toggles; two
\* toggles after a mount give the initial rendering again.
C3_ToggleInvolution ==
  /\ Len(hist) = 2 =>
       /\ hist[1].state = isMinimized
       /\ hist[1].tree = tree
       /\ BrandingPresent(hist[1].tree) = BrandingPresent(tree)
       /\ ControlRotated(hist[1].tree) = ControlRotated(tree)
       /\ \A vp \in Viewports : View(hist[1].tree, vp) = View(tree, vp)
  /\ toggles = 2 =>
       /\ isMinimized = FALSE
       /\ BrandingPresent(tree) /\ ~ControlRotated(tree)
       /\ NavWidth(tree, "wide") = WideLiteral
       /\ \A i \in 1..Len(tree.nav.items) : LabelShown(tree.nav.items[i], "wide")

C3_Witness ==
  Len(hist) = 2 /\ lastAction = "toggle" /\ isMinimized /\ Len(routes) > 0

\* C4: on the wide viewport the label of every item is shown exactly when
\* the sidebar is expanded; on the narrow viewport it is shown in both
\* states.
C4_LabelVisibility ==
  \A i \in 1..Len(tree.nav.items) :
    /\ LabelShown(tree.nav.items[i], "wide") <=> ~isMinimized
    /\ LabelShown(tree.nav.items[i], "narrow")

C4_Witness == isMinimized /\ viewport = "narrow" /\ Len(tree.nav.items) > 0

\* C5: the state that differs from the current one only in isMinimized
\* renders the same on the narrow viewport (width, header, icons, labels,
\* order), and differently on the wide one.
C5_NarrowUnaffected ==
  /\ View(tree, "narrow") = View(Render(routes, ~isMinimized), "narrow")
  /\ View(tree, "wide") # View(Render(routes, ~isMinimized), "wide")
  /\ ~HeaderShown(tree, "narrow")
  /\ NavWidth(tree, "narrow") = [kind |-> "percentage", value |-> 100]

C5_Witness ==
  isMinimized /\ viewport = "narrow" /\ lastAction = "resize" /\ Len(routes) > 0

\* C6: a list of N routes, N = 0 included, renders exactly N items, the i-th
\* with the i-th route's text and icon and keyed by its index, in either
\* state and after any number of toggles.
C6_OneItemPerRoute ==
  /\ Len(tree.nav.items) = Len(routes)
  /\ \A i \in 1..Len(routes) :
       /\ tree.nav.items[i].key = i - 1
       /\ routes[i].text # Undefined => tree.nav.items[i].el.text = routes[i].text
       /\ routes[i].icon # Undefined => tree.nav.items[i].el.icon = routes[i].icon

C6_Witness ==
  /\ Len(routes) >= 2
  /\ routes[1].text \notin {Undefined, routes[2].text}
  /\ routes[2].text # Undefined
  /\ isMinimized
  /\ toggles >= 2

\* C7: a route without text renders with the text "Default", a route without
\* icon with an empty icon slot, every route still gets its item and what a
\* route does carry is rendered as given.
C7_Fallbacks ==
  /\ DOMAIN tree.nav.items = DOMAIN routes
  /\ \A i \in DOMAIN routes :
       /\ tree.nav.items[i].el.text =
            (IF routes[i].text = Undefined THEN "Default" ELSE routes[i].text)
       /\ tree.nav.items[i].el.icon =
            (IF routes[i].icon = Undefined THEN "" ELSE routes[i].icon)

C7_Witness ==
  /\ \E i \in DOMAIN routes : routes[i].text = Undefined
  /\ \E i \in DOMAIN routes : routes[i].icon = Undefined
  /\ \E i \in DOMAIN routes : routes[i].text # Undefined /\ routes[i].icon # Undefined

\* C8: the arrangement depends on the viewport only: content before
\* navigation in a column on the narrow viewport, navigation before content
\* in a row on the wide one, the Header before the injected content in the
\* content region, whatever the state of the sidebar.
C8_Arrangement ==
  /\ VisualOrder(tree, "narrow") = <<"content", "nav">>
  /\ FlexDirection(tree.classes, "narrow") \in {"column", "column-reverse"}
  /\ VisualOrder(tree, "wide") = <<"nav", "content">>
  /\ FlexDirection(tree.classes, "wide") = "row"
  /\ \A vp \in Viewports : ContentOrder(tree, vp) = <<"Header", "children">>

C8_Witness == isMinimized /\ viewport = "narrow" /\ toggles = 1

\* C9: while the page stays mounted only a toggle changes isMinimized: a
\* resize, a scroll of either region, a re-render and a click on an item
\* leave it as it was.
C9_OnlyToggleWrites ==
  [][/\ lastAction' \in {"resize", "scrollNav", "scrollContent", "rerender", "navItem"}
        => isMinimized' = isMinimized
     /\ isMinimized' # isMinimized => lastAction' \in {"toggle", "mount"}]_vars

C9_Witness == isMinimized /\ viewport = "narrow" /\ lastAction = "navItem"

\* C10: the wide-viewport width of the navigation is a literal length fixed
\* by the state alone, 18rem when expanded and 5.5rem when minimized, and
\* never an automatic size.
C10_LiteralWidths ==
  /\ NavWidth(tree, "wide").kind = "length"
  /\ NavWidth(tree, "wide") = (IF isMinimized THEN NarrowLiteral ELSE WideLiteral)

C10_Witness == isMinimized /\ viewport = "wide" /\ lastAction = "toggle"

\* C11 as stated: in every reachable state the control is rendered and
\* visible.
C11_AlwaysVisible == ControlShown(tree, viewport)

\* C11, amended: the control is in the rendered tree in every state, also
\* when the branding block is not, and on the wide viewport it is visible in
\* every state; a toggle step flips the state. (On the narrow viewport the
\* header that holds it is not displayed.)
C11_VisibleOnWide ==
  /\ ControlPresent(tree)
  /\ ~BrandingPresent(tree) => ControlPresent(tree)
  /\ ControlShown(tree, "wide")
  /\ viewport = "wide" => ControlShown(tree, viewport)
  /\ lastAction = "toggle" =>
       Len(hist) >= 1 /\ isMinimized # hist[Len(hist)].state

C11_Witness ==
  isMinimized /\ ~BrandingPresent(tree) /\ viewport = "wide" /\ lastAction = "toggle"

\* C12 as stated: the toggle transition is enabled in every reachable state.
C12_ToggleAlwaysEnabled == ENABLED Toggle

\* C12, amended: no state is terminal for the sidebar. On the wide viewport
\* the toggle is enabled in every state; on the narrow viewport the resize
\* to the wide one is enabled and the tree it keeps shows the control there;
\* and every toggle step moves the state to its other value.
C12_NoTerminalState ==
  /\ [](viewport = "wide" => ENABLED Toggle)
  /\ [](viewport = "narrow" => (ENABLED Resize) /\ ControlShown(tree, "wide"))
  /\ [][lastAction' = "toggle" =>
          /\ isMinimized => ~isMinimized'
          /\ ~isMinimized => isMinimized']_vars

C12_Witness == isMinimized /\ viewport = "wide" /\ toggles = MaxToggles

\* C13: on the wide viewport, where the header is displayed, its block
\* height is the fixed 5rem in either state, so a toggle, which mounts or
\* unmounts the branding block, changes neither the height of the header nor
\* the block offset of the control in it.
C13_FixedHeaderHeight ==
  /\ HeaderHeight(tree, "wide") = [kind |-> "length", value |-> 50]
  /\ lastAction = "toggle" =>
       /\ BrandingPresent(hist[Len(hist)].tree) # BrandingPresent(tree)
       /\ HeaderHeight(hist[Len(hist)].tree, "wide") = HeaderHeight(tree, "wide")
       /\ ControlBlockOffset(hist[Len(hist)].tree, "wide")
            = ControlBlockOffset(tree, "wide")

C13_Witness ==
  /\ lastAction = "toggle" /\ viewport = "wide"
  /\ Len(hist) = 2
  /\ ~BrandingPresent(tree)

\* C14: a fresh mount starts expanded, whatever state the component held
\* when it was unmounted and however often it had been toggled: the state is
\* false, the toggle count starts over and the tree is the expanded one.
C14_MountStartsExpanded ==
  (lastAction = "mount" /\ unmounted \in {"EXPANDED", "MINIMIZED"}) =>
    /\ ~isMinimized
    /\ toggles = 0
    /\ tree = Render(routes, FALSE)
    /\ BrandingPresent(tree) /\ ~ControlRotated(tree)

C14_Witness == lastAction = "mount" /\ unmounted = "MINIMIZED"

\* C15: every item has its icon and its text element in the tree in every
\* state, the text being hidden, not removed, on the wide viewport when
\* minimized; the branding block is in the tree exactly when the sidebar is
\* expanded, removed and not hidden when it is minimized.
C15_MountedVersusHidden ==
  /\ \A i \in 1..Len(tree.nav.items) :
       /\ IconPresent(tree.nav.items[i])
       /\ TextPresent(tree.nav.items[i])
       /\ isMinimized => Display(tree.nav.items[i].el.textClasses, "wide") = "none"
  /\ BrandingPresent(tree) <=> ~isMinimized
  /\ \A i \in 1..Len(tree.nav.header.children) :
       Display(tree.nav.header.children[i].classes, "wide") # "none"

C15_Witness ==
  isMinimized /\ viewport = "wide" /\ Len(tree.nav.items) = MaxRoutes

\* C16: on the wide viewport the navigation region and the content region
\* are each a scroll container, in either state of the sidebar, and a scroll
\* of one changes its own offset and leaves the other's offset and the
\* state of the sidebar as they were.
C16_IndependentScroll ==
  /\ [](/\ ScrollsY(tree.nav.classes, "wide")
        /\ ScrollsY(tree.content.classes, "wide")
        /\ viewport = "wide" => (ENABLED ScrollNav) /\ (ENABLED ScrollContent))
  /\ [][(viewport = "wide" /\ lastAction' = "scrollNav") =>
          /\ navScroll' # navScroll
          /\ contentScroll' = contentScroll
          /\ isMinimized' = isMinimized /\ tree' = tree]_vars
  /\ [][(viewport = "wide" /\ lastAction' = "scrollContent") =>
          /\ contentScroll' # contentScroll
          /\ navScroll' = navScroll
          /\ isMinimized' = isMinimized /\ tree' = tree]_vars

C16_Witness ==
  /\ viewport = "wide" /\ isMinimized
  /\ lastAction = "scrollNav"
  /\ navScroll # contentScroll

\* C17: with clicks and renders interleaved in any way, no click is lost:
\* once the queued updates are applied, and already counting those still
\* queued, the sidebar is minimized exactly when the number of clicks since
\* the mount is odd.
C17_NoToggleLost ==
  toggles < MaxToggles =>
    /\ ApplyAll(pending, isMinimized) <=> (toggles % 2 = 1)
    /\ pending = <<>> => (isMinimized <=> (toggles % 2 = 1))
    /\ pending = <<>> => tree = Render(routes, toggles % 2 = 1)

C17_Witness ==
  /\ lastAction = "flush" /\ flushed = 2
  /\ toggles = 2 /\ pending = <<>>
  /\ ~isMinimized

\* C18: in every committed render one value of the state accounts for all
\* its readers: the width of the navigation, the branding block and the
\* rotation of the control in the header, and the label rule of every item;
\* that value is the state NavBar holds.
C18_ReadersAgree ==
  \E m \in BOOLEAN :
    /\ m = isMinimized
    /\ NavWidth(tree, "wide") = (IF m THEN NarrowLiteral ELSE WideLiteral)
    /\ BrandingPresent(tree) = ~m
    /\ ControlRotated(tree) = m
    /\ \A i \in 1..Len(tree.nav.items) :
         /\ LabelShown(tree.nav.items[i], "wide") = ~m
         /\ ("lg:hidden" \in tree.nav.items[i].el.textClasses) = m

C18_Witness ==
  isMinimized /\ Len(tree.nav.items) = MaxRoutes /\ lastAction = "rerender"

====
